---- MODULE Spec2Model ----
(***************************************************************************)
(* Session lifecycle and output synchronisation of claude-code-web         *)
(* (backend/app.py): the join / message / join_project / project_message   *)
(* Socket.IO handlers, the two monitor threads, the tmux sessions they     *)
(* talk to and the text functions that pick the snapshot to publish.       *)
(*                                                                         *)
(* Texts are sequences of one-character strings, so that strip(), rstrip() *)
(* and len() are computed on them as Python computes them.                 *)
(***************************************************************************)
EXTENDS Naturals, Integers, Sequences, FiniteSets, TLC

(***************************************************************************)
(* Text functions                                                          *)
(***************************************************************************)

\* Characters str.strip() / str.rstrip() remove.
Whitespace == {" ", "\n", "\t", "\r"}

\* n copies of the character ch.
Rep(ch, n) == [i \in 1..n |-> ch]

\* Index of the last non-whitespace character of s, 0 if there is none.
LastVisible(s) ==
    CHOOSE i \in 0..Len(s) :
        /\ i = 0 \/ s[i] \notin Whitespace
        /\ \A j \in (i + 1)..Len(s) : s[j] \in Whitespace

\* Index of the first non-whitespace character of s, Len(s) + 1 if there is
\* none.
FirstVisible(s) ==
    CHOOSE i \in 1..(Len(s) + 1) :
        /\ i = Len(s) + 1 \/ s[i] \notin Whitespace
        /\ \A j \in 1..(i - 1) : s[j] \in Whitespace

\* str.rstrip(): trailing whitespace removed (s is bound to v, to be evaluated
\* once).
RStrip(s) == CHOOSE r \in {SubSeq(v, 1, LastVisible(v)) : v \in {s}} : TRUE

\* str.strip(): leading and trailing whitespace removed.
Strip(s) == CHOOSE r \in {SubSeq(v, FirstVisible(v), LastVisible(v)) : v \in {s}} : TRUE

\* The default message of get_tmux_output.
Placeholder == <<
    "B", "i", "e", "n", "v", "e", "n", "u", "e", " ", "d", "a", "n", "s", " ", "C",
    "l", "a", "u", "d", "e", " ", "C", "o", "d", "e", " ", "W", "e", "b", "\n", "\n",
    "T", "e", "r", "m", "i", "n", "a", "l", " ", "i", "n", "t", "e", "r", "a", "c",
    "t", "i", "f", " ", "p", "o", "u", "r", " ", "C", "l", "a", "u", "d", "e", " ",
    "C", "o", "d", "e", "\n", "-", "-", "-", "-", "-", "-", "-", "-", "-", "-", "-",
    "-", "-", "-", "-", "-", "-", "-", "-", "-", "-", "-", "-", "-", "-", "-", "-",
    "-", "-", "-", "-", "-", "-", "-", "-", "-", "-", "-", "\n", "\n", "P", "r", "ê",
    "t", " ", "à", " ", "r", "e", "c", "e", "v", "o", "i", "r", " ", "v", "o", "s",
    " ", "c", "o", "m", "m", "a", "n", "d", "e", "s", ".", ".", ".", "\n", "T", "a",
    "p", "e", "z", " ", "v", "o", "t", "r", "e", " ", "m", "e", "s", "s", "a", "g",
    "e", " ", "e", "t", " ", "a", "p", "p", "u", "y", "e", "z", " ", "s", "u", "r",
    " ", "C", "t", "r", "l", "+", "E", "n", "t", "e", "r", " ", "p", "o", "u", "r",
    " ", "l", "'", "e", "n", "v", "o", "y", "e", "r", "." >>

\* The least stripped length get_tmux_output and get_project_tmux_output accept.
MinContent == 10

\* get_tmux_output, from the two captured stdout texts to the text it returns.
GetTmuxOutput(main_output, user_output) ==
    LET final_output == IF Len(Strip(main_output)) > Len(Strip(user_output))
                        THEN main_output ELSE user_output
    IN  RStrip(IF Len(Strip(final_output)) < MinContent
               THEN Placeholder ELSE final_output)

\* The choice monitor_tmux_output and send_to_tmux make between the raw capture
\* of the main session and the text get_tmux_output returned.
MonitorChoice(main_output, user_output) ==
    IF Len(main_output) > Len(user_output) THEN main_output ELSE user_output

\* What one tick of monitor_tmux_output computes from the two captures.
MonitorCurrent(main_capture, user_capture) ==
    MonitorChoice(main_capture, GetTmuxOutput(main_capture, user_capture))

(***************************************************************************)
(* Identifiers                                                             *)
(***************************************************************************)

\* Socket.IO connections (request.sid).
Conns == {"c1", "c2"}

\* payload['user_id'] of the valid token a connection holds.
UserOf(c) == IF c = "c1" THEN "u1" ELSE "u2"

\* Session ids clients name in join / message.
SessionIds == {"s1"}

\* Session ids new_session mints (uuid4); no client names them in join or
\* message.
MintedIds == {"n1"}
AllSessionIds == SessionIds \cup MintedIds

\* Project ids clients name; only those of ExistingProjects have a directory
\* under DOCKER_PATH/apps.
ProjectIds == {"p1", "p0"}
ExistingProjects == {"p1"}

\* The characters of a project id.
IdChars(p) == IF p = "p1" THEN <<"p", "1">> ELSE <<"p", "0">>

\* Message texts clients send.
Messages == { <<"i", "t", "'", "s">> }

None == "-"

\* tmux session names.
MainSession == "claude-code-session"
UserSession(s) == "claude_" \o s
ProjectSession(p) == "claude_project_" \o p
TmuxNames == {MainSession} \cup {UserSession(s) : s \in AllSessionIds}
                           \cup {ProjectSession(p) : p \in ProjectIds}

\* Keys of output_threads: a session id, or a project's tmux session name.
ThreadKeys == SessionIds \cup {ProjectSession(p) : p \in ProjectIds}

(***************************************************************************)
(* Bounds                                                                  *)
(***************************************************************************)

\* tmux windows ever created.
MaxWin == 2
\* Times the programs in the panes change what a pane shows.
MaxChanges == 1
\* Events the clients send (disconnections and HTTP requests included).
MaxRequests == 3
\* Inputs of the text functions: leading blanks, visible characters beyond
\* MinContent, trailing newlines.
MaxLead == 1
MaxOver == 1
MaxTrail == 1

(***************************************************************************)
(* Pane contents                                                           *)
(***************************************************************************)

\* A shell prompt: fewer than MinContent visible characters.
PromptText == <<"$", " ">>
\* A pane in which Claude Code runs: it shows the "cwd:" line, and a newline
\* ends it.
ReadyText == <<"c", "w", "d", ":", " ", "/", "r", "o", "o", "t", "\n">>
ScreenTexts == {PromptText, ReadyText}

\* The two texts get_or_create_project_session looks for.
MarkerTry == <<"T", "r", "y", " ", "\"", "h", "o", "w", " ", "d", "o", " ", "I", " ", "l", "o", "g", " ", "a", "n", " ", "e", "r", "r", "o", "r", "?", "\"">>
MarkerCwd == <<"c", "w", "d", ":">>

\* Python's "pattern in text".
Contains(text, pattern) ==
    \E i \in 1..(Len(text) + 1) :
        /\ i + Len(pattern) - 1 <= Len(text)
        /\ SubSeq(text, i, i + Len(pattern) - 1) = pattern

\* The default message of get_project_tmux_output, before rstrip().
ProjectPlaceholder(p) ==
    <<"T", "e", "r", "m", "i", "n", "a", "l", " ", "d", "u", " ", "p", "r", "o", "j", "e", "t", "\n", "\n", "S", "e", "s", "s", "i", "o", "n", ":", " ">> \o <<"c", "l", "a", "u", "d", "e", "_", "p", "r", "o", "j", "e", "c", "t", "_">> \o IdChars(p) \o <<"\n", "P", "r", "ê", "t", " ", "à", " ", "r", "e", "c", "e", "v", "o", "i", "r", " ", "v", "o", "s", " ", "c", "o", "m", "m", "a", "n", "d", "e", "s", ".", ".", ".", "\n">>

\* get_project_tmux_output, from the captured stdout to the text it returns.
GetProjectTmuxOutput(p, output) ==
    RStrip(IF Len(Strip(output)) < MinContent THEN ProjectPlaceholder(p) ELSE output)

(***************************************************************************)
(* Shell command lines                                                     *)
(***************************************************************************)

RECURSIVE EscapeQuotes(_)
\* command.replace("'", "'\\''")
EscapeQuotes(command) ==
    IF command = <<>> THEN <<>>
    ELSE (IF Head(command) = "'" THEN <<"'", "\\", "'", "'">> ELSE <<Head(command)>>)
         \o EscapeQuotes(Tail(command))

RECURSIVE ShellWord(_, _, _)
\* The argument /bin/sh makes of the word w[i..]: text between single quotes is
\* literal, a backslash outside quotes makes the next character literal.
ShellWord(w, i, quoted) ==
    IF i > Len(w) THEN <<>>
    ELSE IF quoted
         THEN IF w[i] = "'" THEN ShellWord(w, i + 1, FALSE)
              ELSE <<w[i]>> \o ShellWord(w, i + 1, TRUE)
    ELSE IF w[i] = "'" THEN ShellWord(w, i + 1, TRUE)
    ELSE IF w[i] = "\\"
         THEN IF i < Len(w) THEN <<w[i + 1]>> \o ShellWord(w, i + 2, FALSE) ELSE <<>>
    ELSE <<w[i]>> \o ShellWord(w, i + 1, FALSE)

\* The key name that executes the line.
EnterKey == <<"C", "-", "m">>

\* The arguments tmux send-keys gets from send_to_tmux: '{escaped_command}' C-m
UserKeys(command) ==
    << ShellWord(<<"'">> \o EscapeQuotes(command) \o <<"'">>, 1, FALSE), EnterKey >>

\* The arguments tmux send-keys gets from send_to_project_tmux:
\* '{escaped_command} C-m' C-m
ProjectKeys(command) ==
    << ShellWord(<<"'">> \o EscapeQuotes(command) \o <<" ", "C", "-", "m", "'">>, 1, FALSE),
       EnterKey >>

\* The command lines get_or_create_project_session types.
ProjectPath(p) == <<"/", "r", "o", "o", "t", "/", "d", "o", "c", "k", "e", "r", "/", "a", "p", "p", "s", "/">> \o IdChars(p)
CdCmd(p) == <<"c", "d", " ">> \o ProjectPath(p)
ExportNameCmd(p) == <<"e", "x", "p", "o", "r", "t", " ", "P", "R", "O", "J", "E", "C", "T", "_", "N", "A", "M", "E", "=">> \o IdChars(p)
ExportPathCmd(p) == <<"e", "x", "p", "o", "r", "t", " ", "P", "R", "O", "J", "E", "C", "T", "_", "P", "A", "T", "H", "=">> \o ProjectPath(p)
ExportContextCmd(p) == <<"e", "x", "p", "o", "r", "t", " ", "C", "L", "A", "U", "D", "E", "_", "P", "R", "O", "J", "E", "C", "T", "_", "C", "O", "N", "T", "E", "X", "T", "=", "\"">> \o ProjectPath(p) \o <<"/", "C", "L", "A", "U", "D", "E", ".", "m", "d", "\"">>
ClearCmd == <<"c", "l", "e", "a", "r">>
LaunchCmd == <<"/", "r", "o", "o", "t", "/", ".", "n", "p", "m", "-", "g", "l", "o", "b", "a", "l", "/", "b", "i", "n", "/", "c", "l", "a", "u", "d", "e">>

(***************************************************************************)
(* State                                                                   *)
(***************************************************************************)

VARIABLES
    active_sessions,   \* session id -> owner user id, None when absent
    output_threads,    \* the keys of output_threads
    project_sessions,  \* project id -> the session id cached for its tmux session, 0 when absent
    uuids,             \* uuid4 values drawn so far (the next one is uuids + 1)
    win,               \* tmux session name -> the window it shows, 0 when no such session
    screen,            \* window -> the text of its pane
    nextWin,           \* windows created so far
    sent,              \* the send-keys commands of the latest operation that sent input
    connected,         \* connections that are open
    rooms,             \* connection -> the projects whose room it is in
    pc,                \* connection -> where its running handler stands
    arg,               \* connection -> the session or project id of its running handler
    emitted,           \* the events a handler last emitted to its caller, and the caller
    thr,               \* <<session id, connection>> -> the monitor_tmux_output thread
    pthr,              \* <<project id, connection>> -> the monitor_project_tmux_output thread
    recvTmux,          \* connection -> the last tmux_output event delivered to it
    recvOut,           \* connection -> the last output event delivered to it
    phase,             \* connection -> session id -> joined / message sent / pane changed since
    changes,           \* times a pane's program changed its text
    requests,          \* events and requests the clients have sent
    reconMain,         \* text functions alone: the capture of the main session
    reconMirror,       \* text functions alone: the capture of the user session
    reconOut,          \* text functions alone: the text computed
    reconOp,           \* text functions alone: which function computed it
    http,              \* the response to the latest HTTP request
    pubAt,             \* project id -> the pane age at which its last published text was captured
    relaunching,       \* project id -> the calls of get_or_create_project_session that have
                       \* captured a pane without marker and not yet typed into it
    launched,          \* project id -> the launch commands typed by such calls since one
                       \* of them last found no other under way
    creating,          \* project id -> the calls of get_or_create_project_session that have
                       \* found no tmux session and not yet made one
    tree,              \* MetaAgent: project name -> what its directory under apps_path
                       \* holds, {} when there is no such directory
    call               \* MetaAgent: the call of create_project under way or last made

tmuxVars == <<win, screen, nextWin, sent>>
registryVars == <<active_sessions, output_threads, project_sessions, uuids>>
connVars == <<connected, rooms>>
handlerVars == <<pc, arg, emitted>>
threadVars == <<thr, pthr>>
clientVars == <<recvTmux, recvOut, phase>>
reconVars == <<reconMain, reconMirror, reconOut, reconOp>>
envVars == <<changes, requests>>
metaVars == <<tree, call>>
vars == <<tmuxVars, registryVars, connVars, handlerVars, threadVars, clientVars,
          envVars, reconVars, metaVars, http, pubAt, relaunching, launched, creating>>

\* An event emitted to a client: its name, the handler that emitted it, the
\* session or project id (or the message of an error), and the output text.
Event(ev, on, id, output) == [ev |-> ev, on |-> on, id |-> id, output |-> output]
NoEvent == Event("none", None, None, <<>>)

NoThread == [st |-> "none", last |-> <<>>, pubs |-> 0]

\* A monitor_project_tmux_output thread also holds the text it has just
\* captured (current_output) and the pane age at which it captured it.
NoProjectThread == [st |-> "none", last |-> <<>>, pubs |-> 0, cap |-> <<>>, at |-> 0]

\* A response to an HTTP request: the route, the project, the status and the
\* session id in the body (0: none).
Response(route, p, status, session_id) ==
    [route |-> route, project |-> p, status |-> status, session_id |-> session_id]
NoResponse == Response(None, None, 0, 0)

\* The server process after start-up: cleanup_old_sessions has killed every
\* claude_* session and the main session, and the dictionaries are empty.
MainInit ==
    /\ active_sessions = [s \in AllSessionIds |-> None]
    /\ output_threads = {}
    /\ project_sessions = [p \in ProjectIds |-> 0]
    /\ uuids = 0
    /\ win = [n \in TmuxNames |-> 0]
    /\ screen = [w \in 1..MaxWin |-> <<>>]
    /\ nextWin = 0
    /\ sent = <<>>
    /\ connected = Conns
    /\ rooms = [c \in Conns |-> {}]
    /\ pc = [c \in Conns |-> "idle"]
    /\ arg = [c \in Conns |-> None]
    /\ emitted = [to |-> None, events |-> <<>>]
    /\ thr = [t \in SessionIds \X Conns |-> NoThread]
    /\ pthr = [t \in ProjectIds \X Conns |-> NoProjectThread]
    /\ recvTmux = [c \in Conns |-> NoEvent]
    /\ recvOut = [c \in Conns |-> NoEvent]
    /\ phase = [c \in Conns |-> [s \in SessionIds |-> "new"]]
    /\ changes = 0
    /\ requests = 0
    /\ http = NoResponse
    /\ pubAt = [p \in ProjectIds |-> 0]
    /\ relaunching = [p \in ProjectIds |-> 0]
    /\ launched = [p \in ProjectIds |-> 0]
    /\ creating = [p \in ProjectIds |-> 0]

\* Project names given to MetaAgent.create_project, as texts.
ProjectNames == { <<"a">>, <<"b", "_", "1">>, <<"-">>, <<"a", "/">> }

\* No call of create_project made yet.
NoCall == [pc |-> "idle", name |-> <<>>, template |-> None, step |-> 0,
           before |-> {}, made |-> FALSE, error |-> None, count |-> 0]

\* No project directory, and no call of create_project.
MetaIdle ==
    /\ tree = [n \in ProjectNames |-> {}]
    /\ call = NoCall

Init ==
    /\ MainInit
    /\ MetaIdle
    /\ reconMain = <<>>
    /\ reconMirror = <<>>
    /\ reconOut = <<>>
    /\ reconOp = "idle"

(***************************************************************************)
(* tmux                                                                    *)
(***************************************************************************)

\* stdout of tmux capture-pane -p -t name: empty when there is no such session.
Capture(name) == IF win[name] = 0 THEN <<>> ELSE screen[win[name]]

\* tmux has-session -t name
HasSession(name) == win[name] # 0

\* A window no session shows is gone, and its text with it.
Collect(wn, sc) ==
    [w \in 1..MaxWin |-> IF \E n \in TmuxNames : wn[n] = w THEN sc[w] ELSE <<>>]

\* One send-keys command: the target, the window it reaches (0: none) and the
\* arguments.
SendKeysTo(name, w, args) == [target |-> name, window |-> w, args |-> args]
SendKeys(name, args) == SendKeysTo(name, win[name], args)

\* emit(...) in a handler, with no room: one event, to the caller.
Emit(c, e) == [to |-> c, events |-> <<e>>]

\* emit(..., to=client_id) and emit(..., room=...): the event reaches the open
\* connections among `to`.
Deliver(box, to, e) == [c \in Conns |-> IF c \in to /\ c \in connected THEN e ELSE box[c]]

\* The connections in the room of project p.
RoomOf(p) == {c \in Conns : p \in rooms[c]}

(***************************************************************************)
(* User sessions: join, message, monitor_tmux_output                       *)
(***************************************************************************)

\* create_tmux_session: the main session and claude_<s> are killed, a new main
\* session is made and claude_<s> is made in its group, showing its window; the
\* banner is typed and Claude Code launched in it.
CreateTmuxWin(s) ==
    [win EXCEPT ![MainSession] = nextWin + 1, ![UserSession(s)] = nextWin + 1]
CreateTmuxScreen(s) ==
    Collect(CreateTmuxWin(s), [screen EXCEPT ![nextWin + 1] = ReadyText])

\* handle_join up to the registry lookup: the token, then
\* "session_id not in active_sessions".
JoinBegin(c, s, valid) ==
    /\ requests < MaxRequests
    /\ requests' = requests + 1
    /\ c \in connected
    /\ pc[c] = "idle"
    /\ IF ~valid
       THEN /\ emitted' = Emit(c, Event("error", "join", "Token invalide", <<>>))
            /\ UNCHANGED <<pc, arg>>
       ELSE /\ UNCHANGED emitted
            /\ arg' = [arg EXCEPT ![c] = s]
            /\ pc' = [pc EXCEPT ![c] =
                        IF active_sessions[s] = None THEN "join_create" ELSE "join_emit"]
    /\ UNCHANGED <<tmuxVars, registryVars, connVars, threadVars, clientVars, changes, reconVars, metaVars, http, pubAt,
                   relaunching, launched, creating>>

\* handle_join: create_tmux_session, then active_sessions[session_id] = user_id.
JoinCreate(c) ==
    /\ pc[c] = "join_create"
    /\ nextWin < MaxWin
    /\ win' = CreateTmuxWin(arg[c])
    /\ screen' = CreateTmuxScreen(arg[c])
    /\ nextWin' = nextWin + 1
    /\ active_sessions' = [active_sessions EXCEPT ![arg[c]] = UserOf(c)]
    /\ pc' = [pc EXCEPT ![c] = "join_emit"]
    /\ UNCHANGED <<sent, output_threads, project_sessions, uuids, connVars, arg, emitted,
                   threadVars, clientVars, envVars, reconVars, metaVars, http, pubAt,
                   relaunching, launched, creating>>

\* POST /api/session/new: 401 without a valid token, else a session id is
\* minted, create_tmux_session makes its tmux sessions, and the id is put in
\* active_sessions with the user of the token. The id minted stands in the
\* response where a project's id does.
NewSession(valid, user) ==
    /\ requests < MaxRequests
    /\ requests' = requests + 1
    /\ IF ~valid
       THEN /\ http' = Response("new_session", None, 401, 0)
            /\ UNCHANGED <<win, screen, nextWin, active_sessions>>
       ELSE \E n \in MintedIds :
               /\ active_sessions[n] = None
               /\ nextWin < MaxWin
               /\ win' = CreateTmuxWin(n)
               /\ screen' = CreateTmuxScreen(n)
               /\ nextWin' = nextWin + 1
               /\ active_sessions' = [active_sessions EXCEPT ![n] = user]
               /\ http' = Response("new_session", n, 200, 0)
    /\ UNCHANGED <<sent, output_threads, project_sessions, uuids, connVars, handlerVars,
                   threadVars, clientVars, changes, reconVars, metaVars, pubAt, relaunching,
                   launched, creating>>

\* handle_join: create_tmux_session raises (os.makedirs fails) and the handler
\* reports it.
JoinCreateFail(c) ==
    /\ pc[c] = "join_create"
    /\ emitted' = Emit(c, Event("error", "join", "Erreur lors de la création de la session", <<>>))
    /\ pc' = [pc EXCEPT ![c] = "idle"]
    /\ arg' = [arg EXCEPT ![c] = None]
    /\ UNCHANGED <<tmuxVars, registryVars, connVars, threadVars, clientVars, envVars, reconVars, metaVars, http, pubAt,
                   relaunching, launched, creating>>

\* handle_join: get_tmux_output, join_room(request.sid), emit joined, then
\* "session_id not in output_threads".
JoinEmit(c) ==
    /\ pc[c] = "join_emit"
    /\ LET s == arg[c]
           output == GetTmuxOutput(Capture(MainSession), Capture(UserSession(s)))
       IN  /\ emitted' = Emit(c, Event("joined", "join", s, output))
           /\ phase' = [phase EXCEPT ![c][s] = IF @ = "new" THEN "joined" ELSE @]
           /\ IF s \in output_threads
              THEN /\ pc' = [pc EXCEPT ![c] = "idle"]
                   /\ arg' = [arg EXCEPT ![c] = None]
              ELSE /\ pc' = [pc EXCEPT ![c] = "join_start"]
                   /\ arg' = arg
    /\ UNCHANGED <<tmuxVars, registryVars, connVars, threadVars, recvTmux, recvOut,
                   envVars, reconVars, metaVars, http, pubAt,
                   relaunching, launched, creating>>

\* handle_join starting the thread without keeping it in output_threads.
JoinStartUnregistered(c) ==
    /\ pc[c] = "join_start"
    /\ thr' = [thr EXCEPT ![<<arg[c], c>>] = [st |-> "start", last |-> <<>>, pubs |-> 0]]
    /\ pc' = [pc EXCEPT ![c] = "idle"]
    /\ arg' = [arg EXCEPT ![c] = None]
    /\ UNCHANGED <<tmuxVars, registryVars, connVars, emitted, pthr, clientVars, envVars,
                   reconVars, metaVars, http, pubAt,
                   relaunching, launched, creating>>

\* handle_join: output_threads[session_id] = Thread(monitor_tmux_output,
\* (session_id, request.sid)), started.
JoinStart(c) ==
    /\ pc[c] = "join_start"
    /\ output_threads' = output_threads \cup {arg[c]}
    /\ thr' = [thr EXCEPT ![<<arg[c], c>>] = [st |-> "start", last |-> <<>>, pubs |-> 0]]
    /\ pc' = [pc EXCEPT ![c] = "idle"]
    /\ arg' = [arg EXCEPT ![c] = None]
    /\ UNCHANGED <<tmuxVars, active_sessions, project_sessions, uuids, connVars, emitted,
                   pthr, clientVars, envVars, reconVars, metaVars, http, pubAt,
                   relaunching, launched, creating>>

\* What monitor_tmux_output computes from the panes in one pass.
CurrentOutput(s) == MonitorCurrent(Capture(MainSession), Capture(UserSession(s)))

\* monitor_tmux_output before its loop: the first capture is emitted to
\* client_id and kept as last_output.
MonitorStart(s, c) ==
    /\ thr[<<s, c>>].st = "start"
    /\ recvTmux' = Deliver(recvTmux, {c}, Event("tmux_output", "monitor", s, CurrentOutput(s)))
    /\ thr' = [thr EXCEPT ![<<s, c>>] =
                 [st |-> "polling", last |-> CurrentOutput(s), pubs |-> @.pubs + 1]]
    /\ UNCHANGED <<tmuxVars, registryVars, connVars, handlerVars, pthr, recvOut, phase,
                   envVars, reconVars, metaVars, http, pubAt,
                   relaunching, launched, creating>>

\* monitor_tmux_output without the comparison with last_output: every pass
\* emits.
MonitorTickAlways(s, c) ==
    /\ thr[<<s, c>>].st = "polling"
    /\ IF active_sessions[s] = None
       THEN /\ thr' = [thr EXCEPT ![<<s, c>>].st = "stopped"]
            /\ UNCHANGED recvTmux
       ELSE /\ recvTmux' = Deliver(recvTmux, {c},
                                   Event("tmux_output", "monitor", s, CurrentOutput(s)))
            /\ thr' = [thr EXCEPT ![<<s, c>>].last = CurrentOutput(s),
                                  ![<<s, c>>].pubs = @ + 1]
    /\ UNCHANGED <<tmuxVars, registryVars, connVars, handlerVars, pthr, recvOut, phase,
                   envVars, reconVars, metaVars, http, pubAt,
                   relaunching, launched, creating>>

\* One pass of the loop of monitor_tmux_output: it ends when the session id has
\* left active_sessions, and emits to client_id when the text differs from
\* last_output.
MonitorTick(s, c) ==
    /\ thr[<<s, c>>].st = "polling"
    /\ IF active_sessions[s] = None
       THEN /\ thr' = [thr EXCEPT ![<<s, c>>].st = "stopped"]
            /\ UNCHANGED recvTmux
       ELSE IF CurrentOutput(s) # thr[<<s, c>>].last
       THEN /\ recvTmux' = Deliver(recvTmux, {c},
                                   Event("tmux_output", "monitor", s, CurrentOutput(s)))
            /\ thr' = [thr EXCEPT ![<<s, c>>].last = CurrentOutput(s),
                                  ![<<s, c>>].pubs = @ + 1]
       ELSE UNCHANGED <<thr, recvTmux>>
    /\ UNCHANGED <<tmuxVars, registryVars, connVars, handlerVars, pthr, recvOut, phase,
                   envVars, reconVars, metaVars, http, pubAt,
                   relaunching, launched, creating>>

\* send_to_tmux typing into the main session only.
SendToTmuxMainOnly(s, message) ==
    << SendKeys(MainSession, UserKeys(message)) >>

\* send_to_tmux: the text goes to the main session, then to claude_<s>.
SendToTmux(s, message) ==
    << SendKeys(MainSession, UserKeys(message)),
       SendKeys(UserSession(s), UserKeys(message)) >>

\* handle_message without the lookup in active_sessions.
HandleMessageUnchecked(c, s, valid, message) ==
    /\ requests < MaxRequests
    /\ requests' = requests + 1
    /\ c \in connected
    /\ pc[c] = "idle"
    /\ IF ~valid
       THEN /\ emitted' = Emit(c, Event("error", "message", "Token invalide", <<>>))
            /\ UNCHANGED <<sent, phase>>
       ELSE /\ UNCHANGED emitted
            /\ sent' = SendToTmux(s, message)
            /\ phase' = [phase EXCEPT ![c][s] = IF @ = "joined" THEN "sent" ELSE @]
    /\ UNCHANGED <<win, screen, nextWin, registryVars, connVars, pc, arg, threadVars,
                   recvTmux, recvOut, changes, reconVars, metaVars, http, pubAt,
                   relaunching, launched, creating>>

\* handle_message: the token, "session_id not in active_sessions", send_to_tmux.
HandleMessage(c, s, valid, message) ==
    /\ requests < MaxRequests
    /\ requests' = requests + 1
    /\ c \in connected
    /\ pc[c] = "idle"
    /\ IF ~valid
       THEN /\ emitted' = Emit(c, Event("error", "message", "Token invalide", <<>>))
            /\ UNCHANGED <<sent, phase>>
       ELSE IF active_sessions[s] = None
       THEN /\ emitted' = Emit(c, Event("error", "message", "Session non trouvée", <<>>))
            /\ UNCHANGED <<sent, phase>>
       ELSE /\ UNCHANGED emitted
            /\ sent' = SendToTmux(s, message)
            /\ phase' = [phase EXCEPT ![c][s] = IF @ = "joined" THEN "sent" ELSE @]
    /\ UNCHANGED <<win, screen, nextWin, registryVars, connVars, pc, arg, threadVars,
                   recvTmux, recvOut, changes, reconVars, metaVars, http, pubAt,
                   relaunching, launched, creating>>

(***************************************************************************)
(* The environment: the programs in the panes, and the clients             *)
(***************************************************************************)

\* The names showing window w.
NamesOf(w) == {n \in TmuxNames : win[n] = w}

\* The program in a pane prints: the pane shows another text.
PaneOutput(w, text) ==
    /\ NamesOf(w) # {}
    /\ changes < MaxChanges
    /\ text # screen[w]
    /\ screen' = [screen EXCEPT ![w] = text]
    /\ changes' = changes + 1
    /\ phase' = [c \in Conns |-> [s \in SessionIds |->
                    IF phase[c][s] = "sent" /\ {MainSession, UserSession(s)} \cap NamesOf(w) # {}
                    THEN "changed" ELSE phase[c][s]]]
    /\ UNCHANGED <<win, nextWin, sent, registryVars, connVars, handlerVars, threadVars,
                   recvTmux, recvOut, requests, reconVars, metaVars, http, pubAt,
                   relaunching, launched, creating>>

\* The program in the only window of a session exits: tmux closes the window,
\* and the sessions showing it end.
PaneExit(w) ==
    /\ NamesOf(w) # {}
    /\ changes < MaxChanges
    /\ changes' = changes + 1
    /\ win' = [n \in TmuxNames |-> IF win[n] = w THEN 0 ELSE win[n]]
    /\ screen' = [screen EXCEPT ![w] = <<>>]
    /\ UNCHANGED <<nextWin, sent, registryVars, connVars, handlerVars, threadVars,
                   clientVars, requests, reconVars, metaVars, http, pubAt,
                   relaunching, launched, creating>>

\* handle_disconnect: the handler only logs; Socket.IO takes the connection out
\* of its rooms.
Disconnect(c) ==
    /\ requests < MaxRequests
    /\ requests' = requests + 1
    /\ c \in connected
    /\ connected' = connected \ {c}
    /\ rooms' = [rooms EXCEPT ![c] = {}]
    /\ UNCHANGED <<tmuxVars, registryVars, handlerVars, threadVars, clientVars, changes,
                   reconVars, metaVars, http, pubAt,
                   relaunching, launched, creating>>

(***************************************************************************)
(* Project sessions                                                        *)
(***************************************************************************)

\* How many of the send-keys commands cmds type the command that launches
\* Claude Code.
Launches(cmds) ==
    Cardinality({i \in 1..Len(cmds) : cmds[i].args = <<LaunchCmd, EnterKey>>})

\* What get_or_create_project_session types into window w of the project's
\* session before it launches Claude Code; context: the project's directory
\* holds a CLAUDE.md (os.path.exists(claude_md_path)).
SetupKeys(p, w, context) ==
    << SendKeysTo(ProjectSession(p), w, <<CdCmd(p), EnterKey>>),
       SendKeysTo(ProjectSession(p), w, <<ExportNameCmd(p), EnterKey>>),
       SendKeysTo(ProjectSession(p), w, <<ExportPathCmd(p), EnterKey>>) >>
    \o (IF context
        THEN << SendKeysTo(ProjectSession(p), w, <<ExportContextCmd(p), EnterKey>>) >>
        ELSE <<>>)

\* Neither text that shows Claude Code running is in the captured pane.
MarkerAbsent(output) == ~Contains(output, MarkerTry) /\ ~Contains(output, MarkerCwd)

\* get_or_create_project_session, the end of its branch for a session tmux
\* has: the cached id, or a new one when none is cached, is returned to
\* create_project_session, which answers with it.
ReturnSessionId(p) ==
    /\ IF project_sessions[p] = 0
       THEN /\ project_sessions' = [project_sessions EXCEPT ![p] = uuids + 1]
            /\ uuids' = uuids + 1
       ELSE UNCHANGED <<project_sessions, uuids>>
    /\ http' = Response("create_project_session", p, 200, project_sessions'[p])

\* get_or_create_project_session going on to launch Claude Code in an existing
\* session without looking at the pane.
ReuseProjectSessionAlways(p) ==
    /\ HasSession(ProjectSession(p))
    /\ relaunching' = [relaunching EXCEPT ![p] = @ + 1]
    /\ launched' = IF relaunching[p] = 0 THEN [launched EXCEPT ![p] = 0] ELSE launched
    /\ UNCHANGED <<tmuxVars, project_sessions, uuids, http>>

\* get_or_create_project_session when tmux has the session, up to the test of
\* the captured pane: with a marker the id is returned at once, without one
\* the call goes on to launch Claude Code again.
ReuseProjectSession(p) ==
    /\ HasSession(ProjectSession(p))
    /\ IF MarkerAbsent(Capture(ProjectSession(p)))
       THEN /\ relaunching' = [relaunching EXCEPT ![p] = @ + 1]
            /\ launched' = IF relaunching[p] = 0
                           THEN [launched EXCEPT ![p] = 0] ELSE launched
            /\ UNCHANGED <<project_sessions, uuids, http>>
       ELSE /\ ReturnSessionId(p)
            /\ UNCHANGED <<relaunching, launched, creating>>
    /\ UNCHANGED tmuxVars

\* get_or_create_project_session typing nothing when another call has typed
\* the launch command into the session since the pane was captured.
RelaunchProjectSessionOnce(p, context) ==
    /\ relaunching[p] > 0
    /\ relaunching' = [relaunching EXCEPT ![p] = @ - 1]
    /\ sent' = IF \E i \in 1..Len(sent) :
                      /\ sent[i].target = ProjectSession(p)
                      /\ sent[i].args = <<LaunchCmd, EnterKey>>
               THEN <<>>
               ELSE SetupKeys(p, win[ProjectSession(p)], context)
                    \o << SendKeys(ProjectSession(p), <<LaunchCmd, EnterKey>>) >>
    /\ launched' = [launched EXCEPT ![p] = @ + Launches(sent')]
    /\ ReturnSessionId(p)
    /\ UNCHANGED <<win, screen, nextWin>>

\* get_or_create_project_session after a capture without marker: the
\* directory, the variables and the launch command are typed into the
\* session, and the id is returned.
RelaunchProjectSession(p, context) ==
    /\ relaunching[p] > 0
    /\ relaunching' = [relaunching EXCEPT ![p] = @ - 1]
    /\ sent' = SetupKeys(p, win[ProjectSession(p)], context)
               \o << SendKeys(ProjectSession(p), <<LaunchCmd, EnterKey>>) >>
    /\ launched' = [launched EXCEPT ![p] = @ + 1]
    /\ ReturnSessionId(p)
    /\ UNCHANGED <<win, screen, nextWin>>

\* get_or_create_project_session launching Claude Code in the new session
\* before it has typed the directory and the variables.
NewProjectSessionLaunchFirst(p, context) ==
    /\ creating[p] > 0
    /\ creating' = [creating EXCEPT ![p] = @ - 1]
    /\ IF HasSession(ProjectSession(p))
       THEN UNCHANGED <<win, screen, nextWin>>
       ELSE /\ nextWin < MaxWin
            /\ win' = [win EXCEPT ![ProjectSession(p)] = nextWin + 1]
            /\ screen' = [screen EXCEPT ![nextWin + 1] = PromptText]
            /\ nextWin' = nextWin + 1
    /\ sent' = << SendKeysTo(ProjectSession(p), win'[ProjectSession(p)], <<ClearCmd, EnterKey>>),
                  SendKeysTo(ProjectSession(p), win'[ProjectSession(p)], <<LaunchCmd, EnterKey>>) >>
               \o SetupKeys(p, win'[ProjectSession(p)], context)
    /\ project_sessions' = [project_sessions EXCEPT ![p] = uuids + 1]
    /\ uuids' = uuids + 1
    /\ http' = Response("create_project_session", p, 200, uuids + 1)
    /\ UNCHANGED <<relaunching, launched>>

\* get_or_create_project_session after tmux has-session failed: new-session,
\* which makes the session unless another call has made it meanwhile, then
\* the directory, the variables, clear and the launch command typed into it,
\* and a new id cached and returned.
NewProjectSession(p, context) ==
    /\ creating[p] > 0
    /\ creating' = [creating EXCEPT ![p] = @ - 1]
    /\ IF HasSession(ProjectSession(p))
       THEN UNCHANGED <<win, screen, nextWin>>
       ELSE /\ nextWin < MaxWin
            /\ win' = [win EXCEPT ![ProjectSession(p)] = nextWin + 1]
            /\ screen' = [screen EXCEPT ![nextWin + 1] = PromptText]
            /\ nextWin' = nextWin + 1
    /\ sent' = SetupKeys(p, win'[ProjectSession(p)], context)
               \o << SendKeysTo(ProjectSession(p), win'[ProjectSession(p)], <<ClearCmd, EnterKey>>),
                     SendKeysTo(ProjectSession(p), win'[ProjectSession(p)], <<LaunchCmd, EnterKey>>) >>
    /\ project_sessions' = [project_sessions EXCEPT ![p] = uuids + 1]
    /\ uuids' = uuids + 1
    /\ http' = Response("create_project_session", p, 200, uuids + 1)
    /\ UNCHANGED <<relaunching, launched>>

\* get_or_create_project_session when tmux has-session fails: the call goes on
\* to make the session.
BeginNewProjectSession(p) ==
    /\ ~HasSession(ProjectSession(p))
    /\ nextWin < MaxWin
    /\ creating' = [creating EXCEPT ![p] = @ + 1]
    /\ UNCHANGED <<tmuxVars, project_sessions, uuids, http, relaunching, launched>>

\* POST /api/projects/<project_id>/session with a valid token: 404 when the
\* project has no directory, else get_or_create_project_session as far as its
\* has-session test and, when the session exists, its test of the pane.
CreateProjectSession(p) ==
    /\ requests < MaxRequests
    /\ requests' = requests + 1
    /\ IF p \notin ExistingProjects
       THEN /\ http' = Response("create_project_session", p, 404, 0)
            /\ UNCHANGED <<tmuxVars, project_sessions, uuids, relaunching, launched, creating>>
       ELSE \/ ReuseProjectSession(p) /\ UNCHANGED creating
            \/ BeginNewProjectSession(p)
    /\ UNCHANGED <<active_sessions, output_threads, connVars, handlerVars, threadVars,
                   clientVars, changes, reconVars, metaVars, pubAt>>

\* POST /api/projects/<project_id>/session, the rest of a call that found no
\* tmux session.
NewProject(p, context) ==
    /\ NewProjectSession(p, context)
    /\ UNCHANGED <<active_sessions, output_threads, connVars, handlerVars, threadVars,
                   clientVars, envVars, reconVars, metaVars, pubAt>>

\* POST /api/projects/<project_id>/session, the rest of a call that found the
\* pane of the existing session without marker.
RelaunchProject(p, context) ==
    /\ RelaunchProjectSession(p, context)
    /\ UNCHANGED creating
    /\ UNCHANGED <<active_sessions, output_threads, connVars, handlerVars, threadVars,
                   clientVars, envVars, reconVars, metaVars, pubAt>>

\* DELETE /api/projects/<project_id> with a valid token: 404 when the project
\* has no directory, else cleanup_project_session kills the tmux session and
\* forgets its id (the directory stays).
DeleteProject(p) ==
    /\ requests < MaxRequests
    /\ requests' = requests + 1
    /\ IF p \notin ExistingProjects
       THEN /\ http' = Response("delete_project", p, 404, 0)
            /\ UNCHANGED <<win, screen, project_sessions>>
       ELSE /\ win' = [win EXCEPT ![ProjectSession(p)] = 0]
            /\ screen' = Collect(win', screen)
            /\ project_sessions' = [project_sessions EXCEPT ![p] = 0]
            /\ http' = Response("delete_project", p, 200, 0)
    /\ UNCHANGED <<nextWin, sent, active_sessions, output_threads, uuids, connVars,
                   handlerVars, threadVars, clientVars, changes, reconVars, metaVars, pubAt,
                   relaunching, launched, creating>>

\* Events that have changed what some pane shows, so far.
PaneAge == changes + nextWin

\* What get_project_tmux_output returns for project p now.
ProjectOutput(p) == GetProjectTmuxOutput(p, Capture(ProjectSession(p)))

\* handle_join_project joining the room before it looks for the directory.
HandleJoinProjectRoomFirst(c, p, valid) ==
    /\ requests < MaxRequests
    /\ requests' = requests + 1
    /\ c \in connected
    /\ pc[c] = "idle"
    /\ IF ~valid
       THEN /\ emitted' = Emit(c, Event("error", "join_project", "Token invalide", <<>>))
            /\ UNCHANGED <<rooms, pc, arg>>
       ELSE /\ rooms' = [rooms EXCEPT ![c] = @ \cup {p}]
            /\ IF p \notin ExistingProjects
               THEN /\ emitted' = Emit(c, Event("error", "join_project", "Projet non trouvé", <<>>))
                    /\ UNCHANGED <<pc, arg>>
               ELSE /\ emitted' = Emit(c, Event("joined", "join_project", p, ProjectOutput(p)))
                    /\ IF ProjectSession(p) \in output_threads
                       THEN UNCHANGED <<pc, arg>>
                       ELSE /\ pc' = [pc EXCEPT ![c] = "join_project_start"]
                            /\ arg' = [arg EXCEPT ![c] = p]
    /\ UNCHANGED <<tmuxVars, registryVars, connected, threadVars, clientVars, changes,
                   reconVars, metaVars, http, pubAt,
                   relaunching, launched, creating>>

\* handle_join_project up to the lookup in output_threads: the token, the
\* project directory, join_room, get_project_tmux_output, emit joined, then
\* "session_name not in output_threads".
HandleJoinProject(c, p, valid) ==
    /\ requests < MaxRequests
    /\ requests' = requests + 1
    /\ c \in connected
    /\ pc[c] = "idle"
    /\ IF ~valid
       THEN /\ emitted' = Emit(c, Event("error", "join_project", "Token invalide", <<>>))
            /\ UNCHANGED <<rooms, pc, arg>>
       ELSE IF p \notin ExistingProjects
       THEN /\ emitted' = Emit(c, Event("error", "join_project", "Projet non trouvé", <<>>))
            /\ UNCHANGED <<rooms, pc, arg>>
       ELSE /\ rooms' = [rooms EXCEPT ![c] = @ \cup {p}]
            /\ emitted' = Emit(c, Event("joined", "join_project", p, ProjectOutput(p)))
            /\ IF ProjectSession(p) \in output_threads
               THEN UNCHANGED <<pc, arg>>
               ELSE /\ pc' = [pc EXCEPT ![c] = "join_project_start"]
                    /\ arg' = [arg EXCEPT ![c] = p]
    /\ UNCHANGED <<tmuxVars, registryVars, connected, threadVars, clientVars, changes,
                   reconVars, metaVars, http, pubAt,
                   relaunching, launched, creating>>

\* handle_join_project: output_threads[session_name] =
\* Thread(monitor_project_tmux_output, (session_name, project_id, request.sid)),
\* started.
JoinProjectStart(c) ==
    /\ pc[c] = "join_project_start"
    /\ output_threads' = output_threads \cup {ProjectSession(arg[c])}
    /\ pthr' = [pthr EXCEPT ![<<arg[c], c>>] = [NoProjectThread EXCEPT !.st = "polling"]]
    /\ pc' = [pc EXCEPT ![c] = "idle"]
    /\ arg' = [arg EXCEPT ![c] = None]
    /\ UNCHANGED <<tmuxVars, active_sessions, project_sessions, uuids, connVars, emitted,
                   thr, clientVars, envVars, reconVars, metaVars, http, pubAt,
                   relaunching, launched, creating>>

\* monitor_project_tmux_output ending every monitor thread of the process when
\* tmux no longer has its session.
MonitorProjectCaptureStopAll(p, c) ==
    /\ pthr[<<p, c>>].st = "polling"
    /\ IF ~HasSession(ProjectSession(p))
       THEN /\ pthr' = [pthr EXCEPT ![<<p, c>>].st = "stopped"]
            /\ thr' = [t \in SessionIds \X Conns |->
                          IF thr[t].st = "none" THEN thr[t]
                          ELSE [thr[t] EXCEPT !.st = "stopped"]]
       ELSE /\ pthr' = [pthr EXCEPT ![<<p, c>>].st = "captured",
                                    ![<<p, c>>].cap = ProjectOutput(p),
                                    ![<<p, c>>].at = PaneAge]
            /\ UNCHANGED thr
    /\ UNCHANGED <<tmuxVars, registryVars, connVars, handlerVars, clientVars,
                   envVars, reconVars, metaVars, http, pubAt, relaunching, launched, creating>>

\* monitor_project_tmux_output, first half of a pass of its loop: it ends when
\* tmux no longer has the session, else current_output is captured.
MonitorProjectCapture(p, c) ==
    /\ pthr[<<p, c>>].st = "polling"
    /\ IF ~HasSession(ProjectSession(p))
       THEN pthr' = [pthr EXCEPT ![<<p, c>>].st = "stopped"]
       ELSE pthr' = [pthr EXCEPT ![<<p, c>>].st = "captured",
                                 ![<<p, c>>].cap = ProjectOutput(p),
                                 ![<<p, c>>].at = PaneAge]
    /\ UNCHANGED <<tmuxVars, registryVars, connVars, handlerVars, thr, clientVars,
                   envVars, reconVars, metaVars, http, pubAt,
                   relaunching, launched, creating>>

\* monitor_project_tmux_output emitting to client_id, as monitor_tmux_output
\* does, rather than to the project's room.
MonitorProjectEmitToClient(p, c) ==
    /\ pthr[<<p, c>>].st = "captured"
    /\ IF pthr[<<p, c>>].cap # pthr[<<p, c>>].last
       THEN /\ recvOut' = Deliver(recvOut, {c},
                                  Event("output", "monitor", p, pthr[<<p, c>>].cap))
            /\ pthr' = [pthr EXCEPT ![<<p, c>>].st = "polling",
                                    ![<<p, c>>].last = pthr[<<p, c>>].cap,
                                    ![<<p, c>>].pubs = @ + 1]
            /\ pubAt' = [pubAt EXCEPT ![p] = pthr[<<p, c>>].at]
       ELSE /\ pthr' = [pthr EXCEPT ![<<p, c>>].st = "polling"]
            /\ UNCHANGED <<recvOut, pubAt>>
    /\ UNCHANGED <<tmuxVars, registryVars, connVars, handlerVars, thr, recvTmux, phase,
                   envVars, reconVars, metaVars, http,
                   relaunching, launched, creating>>

\* monitor_project_tmux_output, second half of a pass: current_output is
\* emitted to the project's room when it differs from previous_output.
MonitorProjectEmit(p, c) ==
    /\ pthr[<<p, c>>].st = "captured"
    /\ IF pthr[<<p, c>>].cap # pthr[<<p, c>>].last
       THEN /\ recvOut' = Deliver(recvOut, RoomOf(p),
                                  Event("output", "monitor", p, pthr[<<p, c>>].cap))
            /\ pthr' = [pthr EXCEPT ![<<p, c>>].st = "polling",
                                    ![<<p, c>>].last = pthr[<<p, c>>].cap,
                                    ![<<p, c>>].pubs = @ + 1]
            /\ pubAt' = [pubAt EXCEPT ![p] = pthr[<<p, c>>].at]
       ELSE /\ pthr' = [pthr EXCEPT ![<<p, c>>].st = "polling"]
            /\ UNCHANGED <<recvOut, pubAt>>
    /\ UNCHANGED <<tmuxVars, registryVars, connVars, handlerVars, thr, recvTmux, phase,
                   envVars, reconVars, metaVars, http,
                   relaunching, launched, creating>>

\* handle_project_message leaving the output to the monitor thread.
HandleProjectMessageSilent(c, p, valid, message) ==
    /\ requests < MaxRequests
    /\ requests' = requests + 1
    /\ c \in connected
    /\ pc[c] = "idle"
    /\ IF ~valid
       THEN /\ emitted' = Emit(c, Event("error", "project_message", "Token invalide", <<>>))
            /\ UNCHANGED sent
       ELSE /\ UNCHANGED emitted
            /\ sent' = << SendKeys(ProjectSession(p), ProjectKeys(message)) >>
    /\ UNCHANGED <<win, screen, nextWin, registryVars, connVars, pc, arg, threadVars,
                   clientVars, changes, reconVars, metaVars, http, pubAt,
                   relaunching, launched, creating>>

\* handle_project_message typing the text before it looks at the token.
HandleProjectMessageUnverified(c, p, valid, message) ==
    /\ requests < MaxRequests
    /\ requests' = requests + 1
    /\ c \in connected
    /\ pc[c] = "idle"
    /\ sent' = << SendKeys(ProjectSession(p), ProjectKeys(message)) >>
    /\ IF ~valid
       THEN /\ emitted' = Emit(c, Event("error", "project_message", "Token invalide", <<>>))
            /\ UNCHANGED <<recvOut, pubAt>>
       ELSE /\ UNCHANGED emitted
            /\ recvOut' = IF ProjectOutput(p) # <<>>
                          THEN Deliver(recvOut, RoomOf(p),
                                       Event("output", "project_message", p, ProjectOutput(p)))
                          ELSE recvOut
            /\ pubAt' = IF ProjectOutput(p) # <<>>
                        THEN [pubAt EXCEPT ![p] = PaneAge] ELSE pubAt
    /\ UNCHANGED <<win, screen, nextWin, registryVars, connVars, pc, arg, threadVars,
                   recvTmux, phase, changes, reconVars, metaVars, http,
                   relaunching, launched, creating>>

\* handle_project_message: the token, send_to_project_tmux, then
\* get_project_tmux_output emitted to the project's room.
HandleProjectMessage(c, p, valid, message) ==
    /\ requests < MaxRequests
    /\ requests' = requests + 1
    /\ c \in connected
    /\ pc[c] = "idle"
    /\ IF ~valid
       THEN /\ emitted' = Emit(c, Event("error", "project_message", "Token invalide", <<>>))
            /\ UNCHANGED <<sent, recvOut, pubAt>>
       ELSE /\ UNCHANGED emitted
            /\ sent' = << SendKeys(ProjectSession(p), ProjectKeys(message)) >>
            /\ recvOut' = IF ProjectOutput(p) # <<>>
                          THEN Deliver(recvOut, RoomOf(p),
                                       Event("output", "project_message", p, ProjectOutput(p)))
                          ELSE recvOut
            /\ pubAt' = IF ProjectOutput(p) # <<>>
                        THEN [pubAt EXCEPT ![p] = PaneAge] ELSE pubAt
    /\ UNCHANGED <<win, screen, nextWin, registryVars, connVars, pc, arg, threadVars,
                   recvTmux, phase, changes, reconVars, metaVars, http,
                   relaunching, launched, creating>>

\* The tmux sessions cleanup_old_sessions kills: those whose name starts with
\* claude_, the sessions of projects among them, then the main session.
OldSessions ==
    {UserSession(s) : s \in AllSessionIds} \cup {ProjectSession(p) : p \in ProjectIds}
        \cup {MainSession}

\* The server process ends and is started again: its dictionaries, threads and
\* connections are gone, cleanup_old_sessions runs as the module is loaded,
\* and the clients connect again.
Restart ==
    /\ requests < MaxRequests
    /\ requests' = requests + 1
    /\ active_sessions' = [s \in AllSessionIds |-> None]
    /\ output_threads' = {}
    /\ project_sessions' = [p \in ProjectIds |-> 0]
    /\ win' = [n \in TmuxNames |-> IF n \in OldSessions THEN 0 ELSE win[n]]
    /\ screen' = Collect(win', screen)
    /\ sent' = <<>>
    /\ connected' = Conns
    /\ rooms' = [c \in Conns |-> {}]
    /\ pc' = [c \in Conns |-> "idle"]
    /\ arg' = [c \in Conns |-> None]
    /\ emitted' = [to |-> None, events |-> <<>>]
    /\ thr' = [t \in SessionIds \X Conns |-> NoThread]
    /\ pthr' = [t \in ProjectIds \X Conns |-> NoProjectThread]
    /\ recvTmux' = [c \in Conns |-> NoEvent]
    /\ recvOut' = [c \in Conns |-> NoEvent]
    /\ phase' = [c \in Conns |-> [s \in SessionIds |-> "new"]]
    /\ http' = NoResponse
    /\ relaunching' = [p \in ProjectIds |-> 0]
    /\ launched' = [p \in ProjectIds |-> 0]
    /\ creating' = [p \in ProjectIds |-> 0]
    /\ UNCHANGED <<nextWin, uuids, changes, reconVars, metaVars, pubAt>>

ProjectNext ==
    \/ \E p \in ProjectIds : CreateProjectSession(p)
    \/ \E p \in ProjectIds, context \in BOOLEAN : RelaunchProject(p, context)
    \/ \E p \in ProjectIds, context \in BOOLEAN : NewProject(p, context)
    \/ \E p \in ProjectIds : DeleteProject(p)
    \/ \E c \in Conns, p \in ProjectIds, valid \in BOOLEAN : HandleJoinProject(c, p, valid)
    \/ \E c \in Conns : JoinProjectStart(c)
    \/ \E p \in ProjectIds, c \in Conns : MonitorProjectCapture(p, c)
    \/ \E p \in ProjectIds, c \in Conns : MonitorProjectEmit(p, c)
    \/ \E c \in Conns, p \in ProjectIds, valid \in BOOLEAN, m \in Messages :
          HandleProjectMessage(c, p, valid, m)

UserNext ==
    \/ \E c \in Conns, s \in SessionIds, valid \in BOOLEAN : JoinBegin(c, s, valid)
    \/ \E c \in Conns : JoinCreate(c)
    \/ \E c \in Conns : JoinCreateFail(c)
    \/ \E valid \in BOOLEAN, c \in Conns : NewSession(valid, UserOf(c))
    \/ \E c \in Conns : JoinEmit(c)
    \/ \E c \in Conns : JoinStart(c)
    \/ \E s \in SessionIds, c \in Conns : MonitorStart(s, c)
    \/ \E s \in SessionIds, c \in Conns : MonitorTick(s, c)
    \/ \E c \in Conns, s \in SessionIds, valid \in BOOLEAN, m \in Messages :
          HandleMessage(c, s, valid, m)
    \/ \E w \in 1..MaxWin, text \in ScreenTexts : PaneOutput(w, text)
    \/ \E w \in 1..MaxWin : PaneExit(w)
    \/ \E c \in Conns : Disconnect(c)

Next == UserNext \/ ProjectNext \/ Restart

Spec == Init /\ [][Next]_vars

(***************************************************************************)
(* The text functions alone                                                *)
(***************************************************************************)

\* The captures the text functions are applied to: blanks, then visible
\* characters, then newlines; the newlines may outnumber the characters of the
\* default message.
ReconInputs ==
    { Rep(" ", lead) \o Rep(ch, body) \o Rep("\n", trail) :
        lead \in 0..MaxLead, ch \in {"A", "B"},
        body \in {0, MinContent \div 2} \cup ((MinContent - 2)..(MinContent + MaxOver)),
        trail \in (0..MaxTrail) \cup {Len(Placeholder) + 1} }

ReconInit ==
    /\ MainInit
    /\ MetaIdle
    /\ reconMain \in ReconInputs
    /\ reconMirror \in ReconInputs
    /\ reconOut = <<>>
    /\ reconOp = "idle"

\* handle_join computes initial_output with get_tmux_output.
ReconJoin ==
    /\ reconOp = "idle"
    /\ reconOut' = GetTmuxOutput(reconMain, reconMirror)
    /\ reconOp' = "get_tmux_output"
    /\ UNCHANGED <<reconMain, reconMirror, metaVars, tmuxVars, registryVars, connVars, handlerVars,
                   threadVars, clientVars, envVars, http, pubAt, relaunching, launched, creating>>

\* monitor_tmux_output computes current_output.
ReconMonitor ==
    /\ reconOp = "idle"
    /\ reconOut' = MonitorCurrent(reconMain, reconMirror)
    /\ reconOp' = "monitor"
    /\ UNCHANGED <<reconMain, reconMirror, metaVars, tmuxVars, registryVars, connVars, handlerVars,
                   threadVars, clientVars, envVars, http, pubAt, relaunching, launched, creating>>

ReconNext == ReconJoin \/ ReconMonitor

ReconSpec == ReconInit /\ [][ReconNext]_vars

(***************************************************************************)
(* Fairness: a started monitor thread keeps running its loop, and a join    *)
(* handler that has found no thread goes on to start one; clients and panes *)
(* need not do anything.                                                    *)
(***************************************************************************)

\* A step of the monitor thread started for session s by connection c.
Monitor(s, c) == MonitorStart(s, c) \/ MonitorTick(s, c)

Fairness ==
    /\ \A c \in Conns : WF_vars(JoinStart(c))
    /\ \A s \in SessionIds, c \in Conns : WF_vars(Monitor(s, c))

FairSpec == Init /\ [][Next]_vars /\ Fairness

\* A step of the monitor thread started for project p by connection c.
MonitorProject(p, c) == MonitorProjectCapture(p, c) \/ MonitorProjectEmit(p, c)

\* The same for projects: a started monitor thread keeps running its loop,
\* and handle_join_project goes on to start the thread it found missing.
ProjectFairness ==
    /\ \A c \in Conns : WF_vars(JoinProjectStart(c))
    /\ \A p \in ExistingProjects, c \in Conns : WF_vars(MonitorProject(p, c))

ProjectFairSpec == Init /\ [][Next]_vars /\ ProjectFairness

(***************************************************************************)
(* MetaAgent.create_project alone: one call at a time on the directories   *)
(* under apps_path.                                                        *)
(***************************************************************************)

\* The calls of create_project a behaviour makes.
MaxCalls == 2

\* The keys of MetaAgent.templates, and the template ids given to
\* create_project.
Templates == {"react-node-postgres", "vue-flask-postgres", "static-site", "api-backend"}
TemplateIds == {"static-site", "none"}

\* The characters of the names for which str.isalnum holds.
Alnum == {"a", "b", "1"}

\* _validate_project_inputs: the name is not empty and is alphanumeric once
\* "-" and "_" are taken out of it, and the template is a known one.
ValidateProjectInputs(project_name, template_id) ==
    LET replaced == SelectSeq(project_name, LAMBDA ch : ch \notin {"-", "_"})
    IN /\ Len(project_name) > 0
       /\ replaced # <<>>
       /\ \A i \in 1..Len(replaced) : replaced[i] \in Alnum
       /\ template_id \in Templates

\* In a tree: the directory itself, beside the number of each step that has
\* written into it.
DirEntry == 0

\* The steps of create_project, numbered as in its comments.
LastStep == 6

\* What a step leaves in the directory: _apply_compliance_rules (4) only
\* looks for files and logs.
Writes(step) == IF step = 4 THEN {} ELSE {DirEntry, step}

\* A project directory made by a complete create_project.
FullTree == UNION {Writes(step) : step \in 1..LastStep}

\* The directories under apps_path before the first call.
MetaInit ==
    /\ MainInit
    /\ reconMain = <<>>
    /\ reconMirror = <<>>
    /\ reconOut = <<>>
    /\ reconOp = "idle"
    /\ tree \in [ProjectNames -> {{}, {DirEntry}, FullTree}]
    /\ call = NoCall

\* create_project up to its try: ValueError for invalid inputs,
\* FileExistsError when the project's path exists.
CreateProject(project_name, template_id) ==
    /\ call.pc \in {"idle", "raised", "returned"}
    /\ call.count < MaxCalls
    /\ call' = [pc |-> IF /\ ValidateProjectInputs(project_name, template_id)
                          /\ tree[project_name] = {}
                       THEN "step" ELSE "raised",
                name |-> project_name,
                template |-> template_id,
                step |-> 1,
                before |-> tree[project_name],
                made |-> FALSE,
                error |-> IF ~ValidateProjectInputs(project_name, template_id)
                          THEN "ValueError"
                          ELSE IF tree[project_name] # {} THEN "FileExistsError" ELSE None,
                count |-> call.count + 1]
    /\ UNCHANGED <<tree, tmuxVars, registryVars, connVars, handlerVars, threadVars,
                   clientVars, envVars, reconVars, http, pubAt, relaunching, launched,
                   creating>>

\* One step of the try block: it writes what it writes and the next one
\* follows, or it raises, having written (partial) or not.
CreateProjectStep(ok, partial) ==
    /\ call.pc = "step"
    /\ tree' = [tree EXCEPT ![call.name] =
                    IF ok \/ partial THEN @ \cup Writes(call.step) ELSE @]
    /\ call' = IF ~ok
               THEN [call EXCEPT !.pc = "except", !.error = "Exception"]
               ELSE IF call.step = LastStep
                    THEN [call EXCEPT !.pc = "returned"]
                    ELSE [call EXCEPT !.step = @ + 1]
    /\ UNCHANGED <<tmuxVars, registryVars, connVars, handlerVars, threadVars,
                   clientVars, envVars, reconVars, http, pubAt, relaunching, launched,
                   creating>>

\* The except clause leaving the directory where it is.
CreateProjectExceptKeep ==
    /\ call.pc = "except"
    /\ call' = [call EXCEPT !.pc = "raised", !.made = tree[call.name] # {}]
    /\ UNCHANGED <<tree, tmuxVars, registryVars, connVars, handlerVars, threadVars,
                   clientVars, envVars, reconVars, http, pubAt, relaunching, launched,
                   creating>>

\* The except clause: the project's path is removed with all it holds when it
\* exists, and the exception is raised again.
CreateProjectExcept ==
    /\ call.pc = "except"
    /\ tree' = [tree EXCEPT ![call.name] = {}]
    /\ call' = [call EXCEPT !.pc = "raised", !.made = tree[call.name] # {}]
    /\ UNCHANGED <<tmuxVars, registryVars, connVars, handlerVars, threadVars,
                   clientVars, envVars, reconVars, http, pubAt, relaunching, launched,
                   creating>>

MetaNext ==
    \/ \E project_name \in ProjectNames, template_id \in TemplateIds :
          CreateProject(project_name, template_id)
    \/ \E ok \in BOOLEAN, partial \in BOOLEAN : CreateProjectStep(ok, partial)
    \/ CreateProjectExcept

MetaSpec == MetaInit /\ [][MetaNext]_vars

(***************************************************************************)
(* Properties                                                              *)
(***************************************************************************)

\* The monitor threads of session s that have been started and have not ended.
ActiveMonitors(s) == {c \in Conns : thr[<<s, c>>].st \in {"start", "polling"}}
ActiveProjectMonitors(p) == {c \in Conns : pthr[<<p, c>>].st \in {"polling", "captured"}}

\* C1: at most one poller per session: for every session id and every project,
\* whatever the interleaving of the join and join_project handlers, at most
\* one monitor thread is started and active.
OnePollerPerSession ==
    /\ \A s \in SessionIds : Cardinality(ActiveMonitors(s)) <= 1
    /\ \A p \in ProjectIds : Cardinality(ActiveProjectMonitors(p)) <= 1

\* The connections that have received joined for session s.
JoinedTo(s) == {c \in Conns : phase[c][s] # "new"}

\* C2: every changed snapshot the poller of a user session publishes is
\* delivered to every connection that has joined the session and is still
\* connected, not only to the connection whose join started the poller.
PollerReachesEveryJoined ==
    [][\A s \in SessionIds, c0 \in Conns :
          (thr[<<s, c0>>].st = "polling" /\ thr'[<<s, c0>>].pubs > thr[<<s, c0>>].pubs)
          => \A c \in JoinedTo(s) \cap connected :
                recvTmux'[c] = Event("tmux_output", "monitor", s, thr'[<<s, c0>>].last)]_vars

\* The monitor threads, of user sessions and of projects.
UserThreads == SessionIds \X Conns
ProjectThreads == ProjectIds \X Conns

\* Something was emitted by a monitor thread in this step.
MonitorPublished ==
    \/ \E t \in UserThreads : thr'[t].pubs > thr[t].pubs
    \/ \E t \in ProjectThreads : pthr'[t].pubs > pthr[t].pubs

\* C3: no spurious broadcasts: while the server runs and the text a poller
\* computes equals the text it broadcast last, it publishes nothing and keeps
\* that text; a client receives a poller event only in a step where a poller
\* publishes; so a poller publishes at most once more than the panes have
\* changed.
NoSpuriousBroadcast ==
    /\ [][~Restart
          => /\ \A t \in UserThreads :
                   (thr[t].st = "polling" /\ CurrentOutput(t[1]) = thr[t].last)
                   => (thr'[t].pubs = thr[t].pubs /\ thr'[t].last = thr[t].last)
             /\ \A t \in ProjectThreads :
                   (pthr[t].st = "captured" /\ pthr[t].cap = pthr[t].last)
                   => (pthr'[t].pubs = pthr[t].pubs /\ pthr'[t].last = pthr[t].last)
             /\ recvTmux' # recvTmux => MonitorPublished
             /\ (recvOut' # recvOut /\ requests' = requests) => MonitorPublished]_vars
    /\ [](\A t \in UserThreads : thr[t].pubs <= 1 + changes + nextWin)
    /\ [](\A t \in ProjectThreads : pthr[t].pubs <= 1 + changes + nextWin)

\* A user poller has broadcast a change and a project poller its first text,
\* and the panes still show what they broadcast last.
NoSpuriousBroadcastWitness ==
    /\ changes > 0
    /\ \E t \in UserThreads :
          thr[t].st = "polling" /\ thr[t].pubs > 1 /\ CurrentOutput(t[1]) = thr[t].last
    /\ \E t \in ProjectThreads :
          pthr[t].st = "polling" /\ pthr[t].pubs > 0 /\ ProjectOutput(t[1]) = pthr[t].last

\* Both captures are short: neither has MinContent characters once trimmed.
BothShort(main_output, user_output) ==
    Len(Strip(main_output)) < MinContent /\ Len(Strip(user_output)) < MinContent

\* C4: length-based selection with ties to main: when the default message is
\* not substituted, get_tmux_output returns the mirror capture only when it is
\* strictly longer after trimming, and the main capture when the trimmed
\* lengths are equal.
TiesFavorMain ==
    (reconOp = "get_tmux_output" /\ ~BothShort(reconMain, reconMirror))
    => reconOut = IF Len(Strip(reconMirror)) > Len(Strip(reconMain))
                  THEN RStrip(reconMirror) ELSE RStrip(reconMain)

\* C5: placeholder on empty: whenever both captures have fewer than ten
\* characters after trimming, whatever their raw lengths, the text sent with
\* joined and the text a poller pass publishes are the default message.
PlaceholderWhenShort ==
    (reconOp # "idle" /\ BothShort(reconMain, reconMirror)) => reconOut = Placeholder

\* C6: join_project ensures the project session: when join_project completes
\* for an existing project, the project's tmux session exists, and the launch
\* command has been typed into it if its pane showed neither ready marker.
JoinProjectEnsuresSession ==
    [][\A c \in Conns, p \in ExistingProjects :
          HandleJoinProject(c, p, TRUE)
          => /\ HasSession(ProjectSession(p))'
             /\ MarkerAbsent(Capture(ProjectSession(p)))
                => \E i \in 1..Len(sent') : sent'[i].args = <<LaunchCmd, EnterKey>>]_vars

\* C7: join postcondition: a join with a valid token that runs to its end,
\* the server not being restarted under it, and reports no error
\* inserts the session id with the joining user as owner when its lookup found
\* it absent, emits one joined event, to the joining connection and with a
\* non-empty initial_output, emits nothing else, and ends with the session id in
\* the session registry and in the registry of pollers.
JoinPostcondition ==
    [][~Restart
       => \A c \in Conns :
             /\ (pc[c] = "idle" /\ pc'[c] \in {"join_create", "join_emit"})
                => /\ emitted' = emitted
                   /\ pc'[c] = "join_create" <=> active_sessions[arg'[c]] = None
             /\ (pc[c] = "join_create" /\ pc'[c] = "join_emit")
                => /\ emitted' = emitted
                   /\ active_sessions'[arg[c]] = UserOf(c)
             /\ (pc[c] = "join_emit" /\ pc'[c] # "join_emit")
                => /\ emitted'.to = c
                   /\ Len(emitted'.events) = 1
                   /\ emitted'.events[1].ev = "joined"
                   /\ emitted'.events[1].id = arg[c]
                   /\ emitted'.events[1].output # <<>>
                   /\ active_sessions'[arg[c]] # None
             /\ (pc[c] = "join_start" /\ pc'[c] = "idle") => emitted' = emitted
             /\ (pc[c] \in {"join_emit", "join_start"} /\ pc'[c] = "idle")
                => /\ active_sessions'[arg[c]] # None
                   /\ arg[c] \in output_threads']_vars

\* A connection has completed the join that created the session: it is the
\* owner, it got joined, and its monitor thread is registered and started.
JoinPostconditionWitness ==
    \E c \in Conns, s \in SessionIds :
        /\ pc[c] = "idle"
        /\ emitted.to = c
        /\ emitted.events # <<>>
        /\ emitted.events[1].ev = "joined"
        /\ emitted.events[1].id = s
        /\ active_sessions[s] = UserOf(c)
        /\ s \in output_threads
        /\ thr[<<s, c>>].st # "none"

\* C8: end-to-end liveness: once a client has joined a session, sent a message
\* and the pane has changed, the monitor thread being scheduled fairly, the
\* client receives, unless it disconnects, a tmux_output event carrying the
\* text the monitor computes from the changed pane.
MessageEventuallyAnswered ==
    \A c \in Conns, s \in SessionIds :
        (phase[c][s] = "changed")
        ~> (c \notin connected
              \/ recvTmux[c] = Event("tmux_output", "monitor", s, CurrentOutput(s)))

\* The state a handler that rejects the token must leave alone.
AuthProtected ==
    <<active_sessions, output_threads, project_sessions, uuids, rooms, connected,
      win, screen, nextWin, sent, thr, pthr, recvTmux, recvOut, pc, arg>>

\* The error event of handler `on` for a rejected token, to connection c.
TokenError(c, on) == Emit(c, Event("error", on, "Token invalide", <<>>))

\* C9: authorization failure has no side effects: join, message, join_project
\* and project_message called with an invalid token emit an error to the caller
\* and change neither the registries, nor the rooms, nor any tmux session, type
\* nothing, start no thread and deliver nothing.
AuthFailureNoSideEffects ==
    [][\A c \in Conns :
          /\ \A s \in SessionIds :
                JoinBegin(c, s, FALSE)
                => (emitted' = TokenError(c, "join") /\ UNCHANGED AuthProtected)
          /\ \A s \in SessionIds, m \in Messages :
                HandleMessage(c, s, FALSE, m)
                => (emitted' = TokenError(c, "message") /\ UNCHANGED AuthProtected)
          /\ \A p \in ProjectIds :
                HandleJoinProject(c, p, FALSE)
                => (emitted' = TokenError(c, "join_project") /\ UNCHANGED AuthProtected)
          /\ \A p \in ProjectIds, m \in Messages :
                HandleProjectMessage(c, p, FALSE, m)
                => (emitted' = TokenError(c, "project_message")
                      /\ UNCHANGED AuthProtected)]_vars

\* A project_message with a bad token has been refused while a user session
\* and a project session existed.
AuthFailureWitness ==
    /\ \E c \in Conns : emitted = TokenError(c, "project_message")
    /\ \E s \in SessionIds : active_sessions[s] # None
    /\ \E p \in ProjectIds : HasSession(ProjectSession(p))

\* The error event of handle_message for an unknown session, to connection c.
SessionNotFound(c) == Emit(c, Event("error", "message", "Session non trouvée", <<>>))

\* C10: session not found on message: a message with a valid token for a
\* session id that is not in the session registry emits an error, types nothing
\* into the main session or the mirror, and does not insert the id.
MessageForUnknownSession ==
    [][\A c \in Conns, s \in SessionIds, m \in Messages :
          (HandleMessage(c, s, TRUE, m) /\ active_sessions[s] = None)
          => /\ emitted' = SessionNotFound(c)
             /\ UNCHANGED <<sent, active_sessions, win, screen, nextWin>>]_vars

\* A message for an unknown session has been refused; a project session has a
\* pane, and the session id is still not in the registry.
MessageForUnknownSessionWitness ==
    /\ \E c \in Conns : emitted = SessionNotFound(c)
    /\ \A s \in SessionIds : active_sessions[s] = None
    /\ \E p \in ProjectIds : HasSession(ProjectSession(p))

\* C11: session not found on project_message: a project_message with a valid
\* token for a project that has no cached session id or no tmux session emits
\* an error to the caller and publishes no output event to the project's room.
ProjectMessageForUnknownSession ==
    [][\A c \in Conns, p \in ProjectIds, m \in Messages :
          (HandleProjectMessage(c, p, TRUE, m)
             /\ (project_sessions[p] = 0 \/ ~HasSession(ProjectSession(p))))
          => /\ emitted'.to = c
             /\ emitted'.events # <<>>
             /\ emitted'.events[1].ev = "error"
             /\ emitted'.events[1].on = "project_message"
             /\ recvOut' = recvOut]_vars

\* The send-keys command that types text and Enter into session name.
Typed(name, text) == SendKeys(name, <<text, EnterKey>>)

\* C12: input forwarded to both handles: a message accepted for a registered
\* user session is typed, each time followed by Enter, into the main session
\* and then into the session's mirror, and the handler emits nothing: no event
\* to its caller and no output event to any client.
MessageForwardedToBoth ==
    [][\A c \in Conns, s \in SessionIds, m \in Messages :
          (HandleMessage(c, s, TRUE, m) /\ active_sessions[s] # None)
          => /\ sent' = << Typed(MainSession, m), Typed(UserSession(s), m) >>
             /\ UNCHANGED <<emitted, recvTmux, recvOut>>]_vars

\* A message has been typed into the main session and the mirror of a
\* registered session, both showing the same window.
MessageForwardedWitness ==
    \E s \in SessionIds, m \in Messages :
        /\ active_sessions[s] # None
        /\ sent = << Typed(MainSession, m), Typed(UserSession(s), m) >>
        /\ sent[1].window # 0
        /\ sent[2].window = sent[1].window

\* C13: immediate extra broadcast: a project_message accepted with a valid
\* token types the input into the project's session and, in the same handler,
\* publishes the text then captured to every connection of the project's room,
\* whatever the monitor threads are doing.
ImmediateExtraBroadcast ==
    [][\A c \in Conns, p \in ProjectIds, m \in Messages :
          HandleProjectMessage(c, p, TRUE, m)
          => /\ Len(sent') = 1
             /\ sent'[1].target = ProjectSession(p)
             /\ SubSeq(sent'[1].args[1], 1, Len(m)) = m
             /\ sent'[1].args[Len(sent'[1].args)] = EnterKey
             /\ \A d \in RoomOf(p) \cap connected :
                   recvOut'[d] = Event("output", "project_message", p, ProjectOutput(p))
             /\ pthr' = pthr]_vars

\* A connection in a project's room has received the output event of a
\* project_message typed into the project's existing session, while no monitor
\* thread of the project has published anything.
ImmediateExtraBroadcastWitness ==
    \E c \in Conns, p \in ProjectIds :
        /\ c \in RoomOf(p)
        /\ HasSession(ProjectSession(p))
        /\ sent # <<>>
        /\ sent[1].target = ProjectSession(p)
        /\ sent[1].window # 0
        /\ recvOut[c] = Event("output", "project_message", p, ProjectOutput(p))
        /\ \A d \in Conns : pthr[<<p, d>>].pubs = 0

\* An output event for project p is delivered to the members of its room in
\* this step, by a monitor thread or by handle_project_message.
ProjectPublished(p) ==
    \/ \E c \in Conns : pthr'[<<p, c>>].pubs > pthr[<<p, c>>].pubs
    \/ \E c \in Conns, m \in Messages : HandleProjectMessage(c, p, TRUE, m)

\* C14: output events are sent only when changed: every tmux_output event
\* delivered for a session, and every output event delivered for a project's
\* room, by a monitor thread or by the message handler, carries a text that
\* differs from the text of the event delivered before it for the same session
\* or room.
OutputOnlyWhenChanged ==
    [][/\ \A s \in SessionIds, c \in Conns :
             (thr'[<<s, c>>].pubs > thr[<<s, c>>].pubs
                /\ c \in connected /\ recvTmux[c].id = s)
             => recvTmux'[c].output # recvTmux[c].output
       /\ \A p \in ProjectIds, d \in Conns :
             (ProjectPublished(p) /\ d \in RoomOf(p) \cap connected
                /\ recvOut[d].ev = "output" /\ recvOut[d].id = p)
             => recvOut'[d].output # recvOut[d].output]_vars

\* C15: per-session ordering: in a project's room texts are published in the
\* order they were captured: a text is never published after a text captured
\* from a later state of the panes, however the monitor thread and
\* handle_project_message interleave.
PublishedInCaptureOrder ==
    [][\A p \in ProjectIds : pubAt'[p] >= pubAt[p]]_vars

\* C16: relaunch exactly once per check: one call of
\* get_or_create_project_session for a project whose tmux session exists types
\* the launch command exactly once, into that session, when the captured pane
\* shows neither marker, and types nothing when it shows one: the test of the
\* pane types nothing and sends the call on to launch only without a marker,
\* and a call sent on types one launch command.
RelaunchOncePerCheck ==
    [][\A p \in ExistingProjects :
          /\ (CreateProjectSession(p) /\ HasSession(ProjectSession(p)))
             => /\ sent' = sent
                /\ relaunching'[p] = IF MarkerAbsent(Capture(ProjectSession(p)))
                                     THEN relaunching[p] + 1 ELSE relaunching[p]
          /\ \A context \in BOOLEAN :
                RelaunchProject(p, context)
                => /\ relaunching'[p] = relaunching[p] - 1
                   /\ Launches(sent') = 1
                   /\ \A i \in 1..Len(sent') :
                         /\ sent'[i].target = ProjectSession(p)
                         /\ sent'[i].window = win[ProjectSession(p)]]_vars

\* Claude Code has been launched again, once, in a project's session that
\* existed already: the commands typed last hold one launch and no clear.
RelaunchOncePerCheckWitness ==
    \E p \in ExistingProjects :
        /\ http = Response("create_project_session", p, 200, project_sessions[p])
        /\ HasSession(ProjectSession(p))
        /\ Launches(sent) = 1
        /\ \A i \in 1..Len(sent) :
              sent[i].target = ProjectSession(p) /\ sent[i].args # <<ClearCmd, EnterKey>>

\* C17: session id stability: while the project is not cleaned up, every call
\* of get_or_create_project_session for a project returns the session id the
\* earlier calls returned, whether its tmux session is running Claude Code,
\* is not running it, or no longer exists.
SessionIdStable ==
    [][\A p \in ExistingProjects :
          (/\ project_sessions[p] # 0
           /\ \/ (/\ CreateProjectSession(p)
                  /\ relaunching' = relaunching /\ creating' = creating)
              \/ \E context \in BOOLEAN :
                    RelaunchProject(p, context) \/ NewProject(p, context))
          => http'.session_id = project_sessions[p]]_vars

\* The connections that get what is emitted to the room of project p.
Audience(p) == RoomOf(p) \cap connected

\* C18: project room fan-out: every text published for a project, by a monitor
\* thread or by handle_project_message, is delivered to all the connections
\* then in the project's room, the same text to each, and to no other
\* connection.
ProjectFanOut ==
    [][\A p \in ProjectIds :
          /\ \A c \in Conns :
                pthr'[<<p, c>>].pubs > pthr[<<p, c>>].pubs
                => \A d \in Audience(p) :
                      recvOut'[d] = Event("output", "monitor", p, pthr'[<<p, c>>].last)
          /\ \A c \in Conns, m \in Messages :
                HandleProjectMessage(c, p, TRUE, m)
                => \A d \in Audience(p) :
                      recvOut'[d] = Event("output", "project_message", p, ProjectOutput(p))
          /\ ProjectPublished(p)
             => \A d \in Conns \ Audience(p) : recvOut'[d] = recvOut[d]]_vars

\* Two connections are in a project's room and both hold the text its monitor
\* thread published last.
ProjectFanOutWitness ==
    \E p \in ProjectIds, c \in Conns :
        /\ Cardinality(Audience(p)) > 1
        /\ pthr[<<p, c>>].pubs > 0
        /\ \A d \in Audience(p) :
              recvOut[d] = Event("output", "monitor", p, pthr[<<p, c>>].last)

\* What a request for a project without a directory must leave alone.
ProjectProtected ==
    <<rooms, output_threads, thr, pthr, pc, win, screen, nextWin, sent,
      project_sessions, uuids>>

\* The error event of handle_join_project for a missing project, to c.
ProjectNotFound(c) == Emit(c, Event("error", "join_project", "Projet non trouvé", <<>>))

\* C19: missing project at the join boundary: when the project has no
\* directory, join_project emits an error and POST /api/projects/<id>/session
\* answers 404, and neither joins a room, registers or starts a monitor
\* thread, creates a tmux session, types anything or mints a session id.
MissingProjectRejected ==
    [][\A p \in ProjectIds \ ExistingProjects :
          /\ \A c \in Conns :
                HandleJoinProject(c, p, TRUE)
                => (emitted' = ProjectNotFound(c) /\ UNCHANGED ProjectProtected)
          /\ CreateProjectSession(p)
             => /\ http' = Response("create_project_session", p, 404, 0)
                /\ UNCHANGED ProjectProtected]_vars

\* Both requests have been refused for a project without a directory, while
\* the session of an existing project was there to be left alone.
MissingProjectRejectedWitness ==
    /\ \E c \in Conns : emitted = ProjectNotFound(c)
    /\ \E p \in ProjectIds \ ExistingProjects :
          http = Response("create_project_session", p, 404, 0)
    /\ \E p \in ExistingProjects : HasSession(ProjectSession(p))

\* C20: a failed capture is "no change this tick": while the captures of a
\* monitor thread return nothing because its tmux sessions are gone, a pass of
\* the thread publishes nothing and keeps the text it published last.
CaptureFailureNoChange ==
    [][/\ \A t \in UserThreads :
             (thr[t].st = "polling" /\ active_sessions[t[1]] # None
                /\ ~HasSession(MainSession) /\ ~HasSession(UserSession(t[1])))
             => (thr'[t].pubs = thr[t].pubs /\ thr'[t].last = thr[t].last)
       /\ \A t \in ProjectThreads :
             (pthr[t].st = "polling" /\ ~HasSession(ProjectSession(t[1])))
             => (pthr'[t].pubs = pthr[t].pubs /\ pthr'[t].last = pthr[t].last)]_vars

\* C21: restart survival: a restart of the server leaves the main tmux session
\* and the tmux session of every project as they were, with what their panes
\* show; only the cached ids are lost.
SessionsSurviveRestart ==
    [][Restart
       => /\ project_sessions' = [p \in ProjectIds |-> 0]
          /\ \A n \in {MainSession} \cup {ProjectSession(p) : p \in ProjectIds} :
                HasSession(n) => (win'[n] # 0 /\ screen'[win'[n]] = Capture(n))]_vars

\* C22: poller active after every successful project join: when join_project
\* has emitted joined and its handler is through, a monitor thread of the
\* project's tmux session is running, whether or not the session existed at
\* the join and whether or not an earlier thread has ended.
PollerAfterProjectJoin ==
    [][\A p \in ExistingProjects, c \in Conns :
          (\/ HandleJoinProject(c, p, TRUE) /\ pc'[c] = "idle"
           \/ JoinProjectStart(c) /\ arg[c] = p)
          => \E d \in Conns : pthr'[<<p, d>>].st \in {"polling", "captured"}]_vars

\* C23: registry presence is the only cancellation signal: a monitor thread
\* ends at the first test of its loop at which its session is not in the
\* registry (active_sessions for a user session, project_sessions for a
\* project), and never ends while its session is in it.
RegistryAloneCancels ==
    [][/\ \A t \in UserThreads :
             /\ MonitorTick(t[1], t[2])
                => (thr'[t].st = "stopped" <=> active_sessions[t[1]] = None)
             /\ (thr[t].st # "stopped" /\ thr'[t].st = "stopped")
                => active_sessions[t[1]] = None
       /\ \A t \in ProjectThreads :
             /\ MonitorProjectCapture(t[1], t[2])
                => (pthr'[t].st = "stopped" <=> project_sessions[t[1]] = 0)
             /\ (pthr[t].st # "stopped" /\ pthr'[t].st = "stopped")
                => project_sessions[t[1]] = 0]_vars

\* C24: errors never terminate a poller: a pass of a monitor thread in which
\* tmux fails, the capture or the has-session test finding no session, leaves
\* the thread in its loop.
ErrorsNeverStopPoller ==
    [][/\ \A t \in UserThreads :
             (/\ MonitorTick(t[1], t[2])
              /\ active_sessions[t[1]] # None
              /\ ~HasSession(MainSession) /\ ~HasSession(UserSession(t[1])))
             => thr'[t].st = "polling"
       /\ \A t \in ProjectThreads :
             (MonitorProjectCapture(t[1], t[2]) /\ ~HasSession(ProjectSession(t[1])))
             => pthr'[t].st \in {"polling", "captured"}]_vars

\* C25: initial broadcast on start: a monitor thread publishes the text it
\* captures first before it waits and before it can end, so that a thread in
\* its loop or ended has published at least once.
InitialBroadcast ==
    /\ \A t \in UserThreads : thr[t].st \in {"polling", "stopped"} => thr[t].pubs > 0
    /\ \A t \in ProjectThreads : pthr[t].st = "stopped" => pthr[t].pubs > 0

\* C26: published snapshots are trimmed: the text of every event delivered to
\* a client, the initial_output of joined, tmux_output and output, ends with
\* no whitespace or newline.
PublishedTrimmed ==
    /\ \A c \in Conns :
          /\ recvTmux[c].output = RStrip(recvTmux[c].output)
          /\ recvOut[c].output = RStrip(recvOut[c].output)
    /\ \A i \in 1..Len(emitted.events) :
          emitted.events[i].output = RStrip(emitted.events[i].output)

\* C27: double launch is reachable: nothing serialises the calls of
\* get_or_create_project_session or suppresses a second launch: every call
\* that has captured the pane of an existing session without marker types the
\* launch command once into that session, whatever calls for the same project
\* are under way and whatever they have typed since the capture.
RelaunchNotSuppressed ==
    [][\A p \in ExistingProjects, context \in BOOLEAN :
          RelaunchProject(p, context)
          => /\ Len(sent') > 0
             /\ sent'[Len(sent')] = SendKeys(ProjectSession(p), <<LaunchCmd, EnterKey>>)
             /\ launched'[p] = launched[p] + 1]_vars

\* Two calls for one project captured the pane of its session without marker
\* before either typed, and both have typed the launch command.
DoubleLaunchWitness ==
    \E p \in ExistingProjects :
        /\ launched[p] = 2
        /\ relaunching[p] = 0
        /\ HasSession(ProjectSession(p))
        /\ Launches(sent) = 1

\* The positions in cmds of the send-keys commands typing args.
Positions(cmds, args) == {i \in 1..Len(cmds) : cmds[i].args = <<args, EnterKey>>}

\* C28: bring-up order: when tmux has no session for the project,
\* get_or_create_project_session creates it first, so that all it types
\* reaches the new session, then types the directory, the two variables and,
\* only when the project has a CLAUDE.md, the context variable, and types the
\* launch command once, after all of them.
BringUpOrder ==
    [][\A p \in ExistingProjects, context \in BOOLEAN :
          (NewProject(p, context) /\ ~HasSession(ProjectSession(p)))
          => /\ win'[ProjectSession(p)] = nextWin'
             /\ nextWin' = nextWin + 1
             /\ \A i \in 1..Len(sent') :
                   /\ sent'[i].target = ProjectSession(p)
                   /\ sent'[i].window = win'[ProjectSession(p)]
             /\ Positions(sent', CdCmd(p)) = {1}
             /\ Positions(sent', ExportNameCmd(p)) = {2}
             /\ Positions(sent', ExportPathCmd(p)) = {3}
             /\ Positions(sent', ExportContextCmd(p)) = IF context THEN {4} ELSE {}
             /\ Positions(sent', LaunchCmd) = {Len(sent')}
             /\ Len(sent') > 4]_vars

\* A session has just been brought up for a project with a CLAUDE.md: the six
\* commands typed went to the window made for it, the launch command last.
BringUpOrderWitness ==
    \E p \in ExistingProjects :
        /\ HasSession(ProjectSession(p))
        /\ win[ProjectSession(p)] = nextWin
        /\ http = Response("create_project_session", p, 200, project_sessions[p])
        /\ Len(sent) = 6
        /\ \A i \in 1..Len(sent) : sent[i].window = nextWin
        /\ Positions(sent, ExportContextCmd(p)) = {4}
        /\ Positions(sent, ClearCmd) = {5}
        /\ Positions(sent, LaunchCmd) = {6}

\* C29: literal input plus one execute signal: send_to_tmux and
\* send_to_project_tmux give tmux exactly the characters of the message,
\* nothing added, followed by one Enter key.
LiteralInputOneEnter ==
    [][/\ \A c \in Conns, s \in SessionIds, m \in Messages :
             (HandleMessage(c, s, TRUE, m) /\ active_sessions[s] # None)
             => \A i \in 1..Len(sent') : sent'[i].args = <<m, EnterKey>>
       /\ \A c \in Conns, p \in ProjectIds, m \in Messages :
             HandleProjectMessage(c, p, TRUE, m)
             => sent' = << Typed(ProjectSession(p), m) >>]_vars

\* C30: registry lookup-and-insert is exclusive: of the joins for a session id
\* not yet in active_sessions, one alone creates the tmux sessions and
\* inserts the id: the sessions are created and the id inserted only while
\* the id is not in active_sessions.
RegistryInsertExclusive ==
    [][\A c \in Conns : JoinCreate(c) => active_sessions[arg[c]] = None]_vars

\* What connection c is subscribed to: the sessions whose monitor thread emits
\* to it, and the projects whose room it is in.
Subscriptions(c) ==
    {s \in SessionIds : thr[<<s, c>>].st \in {"start", "polling"}} \cup rooms[c]

\* C31: one subscription per connection: after any joins and project joins of
\* one connection it is subscribed to at most one session or project room; a
\* new join takes it out of the one it was in.
OneSubscription ==
    \A c \in Conns : Cardinality(Subscriptions(c)) <= 1

\* C32: failure isolation between sessions: a pass of a monitor thread in
\* which tmux fails, or in which the thread ends, changes no other monitor
\* thread, running or not, nor the text it published last, nor any room.
FailureIsolation ==
    [][/\ \A t \in ProjectThreads :
             (MonitorProjectCapture(t[1], t[2]) /\ ~HasSession(ProjectSession(t[1])))
             => /\ thr' = thr
                /\ rooms' = rooms
                /\ \A u \in ProjectThreads \ {t} : pthr'[u] = pthr[u]
       /\ \A t \in UserThreads :
             (/\ MonitorTick(t[1], t[2])
              /\ \/ active_sessions[t[1]] = None
                 \/ ~HasSession(MainSession) /\ ~HasSession(UserSession(t[1])))
             => /\ pthr' = pthr
                /\ rooms' = rooms
                /\ \A u \in UserThreads \ {t} : thr'[u] = thr[u]]_vars

\* The monitor thread of a project has ended while that of a user session,
\* which has published, is in its loop and a connection is in a room.
FailureIsolationWitness ==
    /\ \E t \in ProjectThreads : pthr[t].st = "stopped"
    /\ \E u \in UserThreads : thr[u].st = "polling" /\ thr[u].pubs > 0
    /\ \E c \in Conns : rooms[c] # {}

\* C33: the owner is set once: the user recorded for a session id in
\* active_sessions is the one that created it and is never replaced, whatever
\* the joins and messages of other users for that id.
OwnerSetOnce ==
    [][\A s \in SessionIds :
          (active_sessions[s] # None /\ active_sessions'[s] # None)
          => active_sessions'[s] = active_sessions[s]]_vars

\* C37: each accepted message is entered once: when the main session and the
\* mirror of a user session show the same pane, one accepted message puts its
\* text into that pane once, not once for each of the two sessions.
MessageEnteredOnce ==
    [][\A c \in Conns, s \in SessionIds, m \in Messages :
          (/\ HandleMessage(c, s, TRUE, m)
           /\ active_sessions[s] # None
           /\ HasSession(MainSession)
           /\ win[MainSession] = win[UserSession(s)])
          => Cardinality({i \in 1..Len(sent') : sent'[i].window = win[MainSession]}) = 1]_vars

\* C38: user-session pollers stop when no longer needed: once the connections
\* that joined a user session have all disconnected, the session id leaves
\* active_sessions and the monitor thread of the session ends.
UnneededPollerStops ==
    \A t \in UserThreads :
        (thr[t].st = "polling" /\ JoinedTo(t[1]) \cap connected = {})
        ~> (thr[t].st = "stopped" /\ active_sessions[t[1]] = None)

\* No monitor thread of a user session is ever found ended, and only the end
\* of the server process takes a session id out of active_sessions.
UserMonitorNeverEnds ==
    /\ [](\A t \in UserThreads : thr[t].st # "stopped")
    /\ [][\A s \in SessionIds :
             (active_sessions[s] # None /\ active_sessions'[s] = None) => Restart]_vars

\* C35: concurrent get-or-create agrees on one id: a call of
\* get_or_create_project_session that finds the tmux session made by another
\* call for the same project while it was under way makes no second session,
\* returns the id that call cached, and leaves that id cached.
ConcurrentCreateAgrees ==
    [][\A p \in ExistingProjects, context \in BOOLEAN :
          (NewProject(p, context) /\ HasSession(ProjectSession(p)))
          => /\ nextWin' = nextWin
             /\ http'.session_id = project_sessions[p]
             /\ project_sessions'[p] = project_sessions[p]]_vars

\* The session ids in active_sessions.
Registered == {s \in AllSessionIds : active_sessions[s] # None}

\* C36: creating a session leaves other sessions intact: making the tmux
\* sessions of a new user session, for POST /api/session/new or for a join of
\* an id not in active_sessions, neither kills nor makes again the main
\* session or the mirror of a session already in active_sessions, and a join
\* of an id in active_sessions makes and kills nothing.
CreateLeavesOthersIntact ==
    [][/\ ((\E c \in Conns : JoinCreate(c) \/ NewSession(TRUE, UserOf(c)))
           /\ Registered # {})
          => /\ win'[MainSession] = win[MainSession]
             /\ \A s \in Registered : win'[UserSession(s)] = win[UserSession(s)]
       /\ \A c \in Conns, s \in SessionIds :
             (JoinBegin(c, s, TRUE) /\ active_sessions[s] # None)
             => (pc'[c] = "join_emit" /\ UNCHANGED <<win, screen, nextWin>>)]_vars

\* C39: project creation is all or nothing: when create_project has raised,
\* for invalid inputs, an existing path or a step that failed, the project's
\* path holds what it held before the call: no directory when there was none,
\* and the directory as it was when there was one.
AllOrNothing ==
    call.pc = "raised" => tree[call.name] = call.before

\* A step has failed after the directory was made, and the call has raised.
AllOrNothingWitness ==
    /\ call.pc = "raised"
    /\ call.error = "Exception"
    /\ call.made
    /\ call.step > 1

\* C34: convergence to the freshest snapshot: once the pane of a project's
\* session has stopped changing, the output event last delivered to each
\* connection of the project's room comes to carry the text the pane then
\* gives, and keeps carrying it, however the monitor threads and the
\* project_message handlers were interleaved.
FreshestSnapshotDelivered ==
    \A p \in ExistingProjects :
        <>[](\A d \in Audience(p) :
                (recvOut[d].ev = "output" /\ recvOut[d].id = p)
                => recvOut[d].output = ProjectOutput(p))

====
